---- MODULE Spec2Model ----
(***************************************************************************)
(* A model of the asynchronous writer of ecromaneli-golang/console         *)
(* (logger/async/writer.go): a buffered channel of payloads, one drain     *)
(* goroutine (processWrites) and caller goroutines that run Write, Flush   *)
(* and Close.  Every statement of the source that touches shared state is  *)
(* one step, so that the goroutines interleave as the Go scheduler lets    *)
(* them.  The fields closed and forceClosed are plain (unsynchronised)     *)
(* fields: a read and the write that follows it are separate steps.        *)
(***************************************************************************)
EXTENDS Integers, Sequences, FiniteSets, TLC

\* ------------------------------------------------------------------ bounds
NumCallers == 2      \* caller goroutines
MaxCalls == 3        \* calls (Write, Flush, Close) started in one behaviour
MaxBuf == 2          \* largest explicit bufferSize given to NewAsyncWriter
NumSinks == 2        \* raw sinks a logger can be pointed at
MaxOps == 4          \* Logger calls started in one behaviour

\* ------------------------------------------------------- program constants
DefaultBufSize == 100
TenWrites == 10
LevelOff == 0
LevelFatal == 5
LevelError == 10
LevelWarn == 15
LevelInfo == 20
LevelDebug == 25
LevelTrace == 30
LevelAll == 255

Procs == 1..NumCallers

\* bufferSize arguments of NewAsyncWriter: non-positive ones and 1..MaxBuf
BufferSizes == (-1)..MaxBuf

VARIABLES
  bufSize,       \* w.bufSize: capacity of dataCh
  dataCh,        \* w.dataCh: the buffered payloads, oldest first
  chClosed,      \* dataCh has been closed
  doneClosed,    \* w.done has been closed (the shutdown signal)
  wg,            \* w.wg: the WaitGroup counter
  closed,        \* w.closed
  forceClosed,   \* w.forceClosed
  target,        \* w.target: the payloads the sink has stored, in order
  sinkFaulty,    \* the sink may fail a write (returns 0 and an error)
  dpc,           \* position of the drain goroutine
  dcur,          \* the drain goroutine's local `data`
  dforced,       \* the drain goroutine left without draining (read forceClosed = true)
  pc,            \* position of each caller goroutine
  arg,           \* each caller's payload p of the Write in progress
  ret,           \* each caller's last returned result
  panicked,      \* the process died of a runtime panic
  hist,          \* the calls started so far, in order (history)
  enq,           \* the payloads accepted into dataCh so far, in order (history)
  atSignal,      \* dataCh when Close sent the shutdown signal (history)
  abandoned,     \* dataCh when the drain goroutine read forceClosed = true (history)
  shutdownRet,   \* some Flush or Close call has returned (history)
  budget,        \* the number of calls the behaviour may start
  bufArg,        \* the bufferSize argument NewAsyncWriter was given (history)
  accepted,      \* the payloads of the Write calls that returned a nil error (history)
  heap,          \* the byte arrays in memory: the caller's buffer first, then each
                 \* `data` array a Write call made
  bufCap,        \* capacity of the dataCh that holds slices
  bufCh,         \* that dataCh: the queued slices (heap positions), oldest first
  bufAt,         \* what each queued slice held when its Write was called (history)
  bufClosed,     \* w.closed and w.forceClosed of that writer
  bufDone,       \* its w.done has been closed
  bufDrain,      \* its drain goroutine: position, local `data`, and history
  bufSink,       \* its target: the byte strings stored, in order
  bufPc,         \* position of the goroutine that owns the buffer
  bufCalls,      \* the number of Write calls that goroutine has started
  lwriter,       \* Logger.writer: a raw sink or an AsyncWriter
  aws,           \* the AsyncWriters made for the logger, in the order of their making
  sinks,         \* the raw sinks: the payloads each has stored, in order
  lpc,           \* position of the goroutine that uses the logger
  lhist,         \* the Logger calls started so far, in order (history)
  lenq,          \* the records AsyncWriters took into their queues: writer and payload (history)
  lpc2,          \* position of a second goroutine that logs through the same logger
  lname,         \* Logger.name
  logLevel,      \* Logger.logLevel
  dateFormat,    \* Logger.dateFormat
  dispatched,    \* the last Log call: level, arguments, clock reading, dispatcher
                 \* calls made and text written
  enabledRet     \* the last IsEnabled call: its level and its result

\* The variables of the logger (logger.go) and those of the single AsyncWriter
\* whose goroutines are followed statement by statement (async/writer.go).
fmtVars == <<lname, logLevel, dateFormat, dispatched, enabledRet>>
loggerVars == <<lwriter, aws, sinks, lpc, lhist, lenq, lpc2, fmtVars>>
memVars == <<heap, bufCap, bufCh, bufAt, bufClosed, bufDone, bufDrain, bufSink, bufPc,
             bufCalls>>
stmtVars == <<bufSize, dataCh, chClosed, doneClosed, wg, closed, forceClosed, target,
              sinkFaulty, dpc, dcur, dforced, pc, arg, ret, panicked, hist, enq,
              atSignal, abandoned, shutdownRet, budget, bufArg, accepted>>
asyncVars == <<stmtVars, memVars>>
vars == <<asyncVars, loggerVars>>

writerVars == <<bufSize, dataCh, chClosed, doneClosed, wg, closed, forceClosed>>
drainVars == <<dpc, dcur, dforced, abandoned>>
ghostVars == <<hist, enq, atSignal, abandoned, shutdownRet>>

\* ----------------------------------------------------------------- helpers
Range(s) == {s[i] : i \in 1..Len(s)}

RECURSIVE Concat(_)
Concat(ss) == IF ss = <<>> THEN <<>> ELSE Head(ss) \o Concat(Tail(ss))

IsPrefix(s, t) == Len(s) <= Len(t) /\ SubSeq(t, 1, Len(s)) = s

Count(s, x) == Cardinality({i \in 1..Len(s) : s[i] = x})

SameBag(s, t) == /\ Len(s) = Len(t)
                 /\ \A x \in Range(s) \cup Range(t) : Count(s, x) = Count(t, x)

NoResult == [op |-> "none", n |-> 0, err |-> "nil"]
Result(op, n, err) == [op |-> op, n |-> n, err |-> err]

Event(op, c) == [op |-> op, c |-> c]
NumWrites == Cardinality({i \in 1..Len(hist) : hist[i].op = "Write"})

\* A caller may start a call while the behaviour's budget of calls lasts.  The
\* callers are interchangeable, so they are numbered by their first call:
\* caller c starts calling only after the callers below it.
HasCalled(c) == \E i \in 1..Len(hist) : hist[i].c = c
MayCall(c) ==
  /\ Len(hist) < budget
  /\ \A d \in Procs : d < c => HasCalled(d)

\* The payload of the k-th Write call: the one-byte slice <<k>>.
Payload(k) == <<k>>

\* ------------------------------------------------------------ construction
\* An io.Writer value is a raw sink or (a pointer to) an AsyncWriter.
Sinks == 1..NumSinks
RawSink(s) == [kind |-> "raw", id |-> s]
AsyncRef(i) == [kind |-> "async", id |-> i]
DefaultWriter == RawSink(1)

\* logger.New: the writer is DefaultWriter; nothing has been logged.
NewLogger ==
  /\ lwriter = DefaultWriter
  /\ aws = <<>>
  /\ sinks = [s \in Sinks |-> <<>>]
  /\ lpc = [at |-> "idle"]
  /\ lhist = <<>>
  /\ lenq = <<>>
  /\ lpc2 = [at |-> "idle"]

DefaultLogLevel == LevelInfo
DefaultDateFormat == "2006-01-02 15:04:05.000 Z07:00"
NoDispatch == [lv |-> LevelOff, a |-> <<>>, now |-> "", n |-> 0, out |-> ""]
NoEnabled == [lv |-> LevelOff, ok |-> TRUE]

\* logger.New(name): the fields that decide what is logged and how it looks.
NewLoggerFields(name) ==
  /\ lname = name
  /\ logLevel = DefaultLogLevel
  /\ dateFormat = DefaultDateFormat
  /\ dispatched = NoDispatch
  /\ enabledRet = NoEnabled

\* Mutant: only a negative bufferSize gets the default, 0 makes an unbuffered queue.
NormalizeBufSize_OnlyNegative(bufferSize) ==
  IF bufferSize < 0 THEN DefaultBufSize ELSE bufferSize

NormalizeBufSize(bufferSize) == IF bufferSize <= 0 THEN DefaultBufSize ELSE bufferSize

NewAsyncWriter(bufferSize) ==
  /\ bufArg = bufferSize
  /\ bufSize = NormalizeBufSize(bufferSize)
  /\ dataCh = <<>>
  /\ chClosed = FALSE
  /\ doneClosed = FALSE
  /\ wg = 1
  /\ closed = FALSE
  /\ forceClosed = FALSE
  /\ dpc = "select"
  /\ dcur = <<>>
  /\ dforced = FALSE

\* The same constructor, seen at the level of memory: the caller owns one
\* buffer, the queue holds slices, nothing has been written.
NewBuffers(capacity) ==
  /\ heap = <<Payload(1)>>
  /\ bufCap = capacity
  /\ bufCh = <<>>
  /\ bufAt = <<>>
  /\ bufClosed = [closed |-> FALSE, forceClosed |-> FALSE]
  /\ bufDone = FALSE
  /\ bufDrain = [at |-> "select", data |-> 0, was |-> <<>>, reused |-> FALSE]
  /\ bufSink = <<>>
  /\ bufPc = [at |-> "idle", data |-> 0, was |-> <<>>]
  /\ bufCalls = 0

InitRest ==
  /\ target = <<>>
  /\ pc = [c \in Procs |-> "idle"]
  /\ arg = [c \in Procs |-> <<>>]
  /\ ret = [c \in Procs |-> NoResult]
  /\ panicked = FALSE
  /\ hist = <<>>
  /\ enq = <<>>
  /\ atSignal = <<>>
  /\ abandoned = <<>>
  /\ shutdownRet = FALSE
  /\ accepted = <<>>
  /\ NewLogger

Init ==
  /\ NewBuffers(1)
  /\ \E b \in BufferSizes : NewAsyncWriter(b)
  /\ InitRest
  /\ NewLoggerFields("")
  /\ sinkFaulty = FALSE
  /\ budget = MaxCalls

\* -------------------------------------------------------------------- sink
\* target.Write(p): a working write stores p and returns (len(p), nil); a
\* failing one stores nothing and returns (0, error).
SinkStore(t, p, ok) == IF ok THEN Append(t, p) ELSE t
SinkResult(p, ok) == IF ok THEN [n |-> Len(p), err |-> "nil"] ELSE [n |-> 0, err |-> "ErrSink"]
SinkOutcomes == IF sinkFaulty THEN {TRUE, FALSE} ELSE {TRUE}

\* -------------------------------------------------------------------- Write
\* Mutant: Write does not look at w.closed.
WriteCall_NoClosedCheck(c) ==
  /\ ~panicked
  /\ pc[c] = "idle"
  /\ MayCall(c)
  /\ hist' = Append(hist, Event("Write", c))
  /\ arg' = [arg EXCEPT ![c] = Payload(NumWrites + 1)]
  /\ pc' = [pc EXCEPT ![c] = "w_select"]
  /\ UNCHANGED <<writerVars, drainVars, target, sinkFaulty, ret, panicked, enq,
                 atSignal, shutdownRet, budget, bufArg, accepted, loggerVars, memVars>>

\* if w.closed { return 0, io.ErrClosedPipe }; data := copy of p
WriteCall(c) ==
  /\ ~panicked
  /\ pc[c] = "idle"
  /\ MayCall(c)
  /\ hist' = Append(hist, Event("Write", c))
  /\ arg' = [arg EXCEPT ![c] = Payload(NumWrites + 1)]
  /\ IF closed
     THEN /\ ret' = [ret EXCEPT ![c] = Result("Write", 0, "ErrClosedPipe")]
          /\ pc' = pc
     ELSE /\ pc' = [pc EXCEPT ![c] = "w_select"]
          /\ ret' = ret
  /\ UNCHANGED <<writerVars, drainVars, target, sinkFaulty, panicked, enq, atSignal,
                 shutdownRet, budget, bufArg, accepted, loggerVars, memVars>>

\* Mutant: a full queue drops the payload and reports success.
WriteSelect_DropWhenFull(c) ==
  /\ ~panicked
  /\ pc[c] = "w_select"
  /\ IF chClosed
     THEN /\ panicked' = TRUE
          /\ UNCHANGED <<dataCh, enq, pc, ret, accepted>>
     ELSE /\ IF Len(dataCh) < bufSize
             THEN dataCh' = Append(dataCh, arg[c]) /\ enq' = Append(enq, arg[c])
             ELSE UNCHANGED <<dataCh, enq>>
          /\ accepted' = Append(accepted, arg[c])
          /\ ret' = [ret EXCEPT ![c] = Result("Write", Len(arg[c]), "nil")]
          /\ pc' = [pc EXCEPT ![c] = "idle"]
          /\ panicked' = panicked
  /\ UNCHANGED <<bufSize, chClosed, doneClosed, wg, closed, forceClosed, drainVars,
                 target, sinkFaulty, arg, hist, atSignal, shutdownRet, budget, bufArg, loggerVars, memVars>>

\* Mutant: a blocking send (no default case), Write waits for queue space.
WriteSelect_Blocking(c) ==
  /\ ~panicked
  /\ pc[c] = "w_select"
  /\ IF chClosed
     THEN /\ panicked' = TRUE
          /\ UNCHANGED <<dataCh, enq, pc, ret, accepted>>
     ELSE /\ Len(dataCh) < bufSize
          /\ dataCh' = Append(dataCh, arg[c])
          /\ enq' = Append(enq, arg[c])
          /\ accepted' = Append(accepted, arg[c])
          /\ ret' = [ret EXCEPT ![c] = Result("Write", Len(arg[c]), "nil")]
          /\ pc' = [pc EXCEPT ![c] = "idle"]
          /\ panicked' = panicked
  /\ UNCHANGED <<bufSize, chClosed, doneClosed, wg, closed, forceClosed, drainVars,
                 target, sinkFaulty, arg, hist, atSignal, shutdownRet, budget, bufArg, loggerVars, memVars>>

\* select { case w.dataCh <- data: return length, nil; default: ... }
WriteSelect(c) ==
  /\ ~panicked
  /\ pc[c] = "w_select"
  /\ IF chClosed
     THEN \* send on a closed channel
          /\ panicked' = TRUE
          /\ UNCHANGED <<dataCh, enq, pc, ret, accepted>>
     ELSE IF Len(dataCh) < bufSize
     THEN /\ dataCh' = Append(dataCh, arg[c])
          /\ enq' = Append(enq, arg[c])
          /\ accepted' = Append(accepted, arg[c])
          /\ ret' = [ret EXCEPT ![c] = Result("Write", Len(arg[c]), "nil")]
          /\ pc' = [pc EXCEPT ![c] = "idle"]
          /\ panicked' = panicked
     ELSE /\ pc' = [pc EXCEPT ![c] = "w_direct"]
          /\ UNCHANGED <<dataCh, enq, ret, panicked, accepted>>
  /\ UNCHANGED <<bufSize, chClosed, doneClosed, wg, closed, forceClosed, drainVars,
                 target, sinkFaulty, arg, hist, atSignal, shutdownRet, budget, bufArg, loggerVars, memVars>>

\* Mutant: the fallback reports success without writing to the target.
WriteDirect_Drop(c) ==
  /\ ~panicked
  /\ pc[c] = "w_direct"
  /\ ret' = [ret EXCEPT ![c] = Result("Write", Len(arg[c]), "nil")]
  /\ pc' = [pc EXCEPT ![c] = "idle"]
  /\ accepted' = Append(accepted, arg[c])
  /\ UNCHANGED <<writerVars, drainVars, target, sinkFaulty, arg, panicked, hist, enq,
                 atSignal, shutdownRet, budget, bufArg, loggerVars, memVars>>

\* Mutant: the fallback writes, but returns (len(p), nil) whatever the target said.
WriteDirect_SwallowError(c) ==
  /\ ~panicked
  /\ pc[c] = "w_direct"
  /\ \E ok \in SinkOutcomes : target' = SinkStore(target, arg[c], ok)
  /\ ret' = [ret EXCEPT ![c] = Result("Write", Len(arg[c]), "nil")]
  /\ pc' = [pc EXCEPT ![c] = "idle"]
  /\ accepted' = Append(accepted, arg[c])
  /\ UNCHANGED <<writerVars, drainVars, sinkFaulty, arg, panicked, hist, enq,
                 atSignal, shutdownRet, budget, bufArg, loggerVars, memVars>>

\* default: return w.target.Write(p)
WriteDirect(c) ==
  /\ ~panicked
  /\ pc[c] = "w_direct"
  /\ \E ok \in SinkOutcomes :
       /\ target' = SinkStore(target, arg[c], ok)
       /\ accepted' = IF ok THEN Append(accepted, arg[c]) ELSE accepted
       /\ ret' = [ret EXCEPT ![c] =
                    Result("Write", SinkResult(arg[c], ok).n, SinkResult(arg[c], ok).err)]
  /\ pc' = [pc EXCEPT ![c] = "idle"]
  /\ UNCHANGED <<writerVars, drainVars, sinkFaulty, arg, panicked, hist, enq,
                 atSignal, shutdownRet, budget, bufArg, loggerVars, memVars>>

\* ------------------------------------------------------------ processWrites
\* Mutant: the drain goroutine takes the newest entry.
DrainRecv_Lifo ==
  /\ ~panicked
  /\ dpc = "select"
  /\ dataCh # <<>>
  /\ dcur' = dataCh[Len(dataCh)]
  /\ dataCh' = SubSeq(dataCh, 1, Len(dataCh) - 1)
  /\ dpc' = "write"
  /\ UNCHANGED <<bufSize, chClosed, doneClosed, wg, closed, forceClosed, dforced,
                 target, sinkFaulty, pc, arg, ret, panicked, ghostVars, budget, bufArg, accepted, loggerVars, memVars>>

\* select: case data := <-w.dataCh
DrainRecv ==
  /\ ~panicked
  /\ dpc = "select"
  /\ dataCh # <<>>
  /\ dcur' = Head(dataCh)
  /\ dataCh' = Tail(dataCh)
  /\ dpc' = "write"
  /\ UNCHANGED <<bufSize, chClosed, doneClosed, wg, closed, forceClosed, dforced,
                 target, sinkFaulty, pc, arg, ret, panicked, ghostVars, budget, bufArg, accepted, loggerVars, memVars>>

\* Mutant: the drain goroutine writes the entry a second time (a retry).
DrainWrite_Twice ==
  /\ ~panicked
  /\ dpc = "write"
  /\ \E ok \in SinkOutcomes : target' = SinkStore(SinkStore(target, dcur, ok), dcur, ok)
  /\ dpc' = "select"
  /\ UNCHANGED <<writerVars, dcur, dforced, sinkFaulty, pc, arg, ret, panicked,
                 ghostVars, budget, bufArg, accepted, loggerVars, memVars>>

\* Mutant: an entry whose write failed is put back on the queue for a retry.
DrainWrite_RequeueOnError ==
  /\ ~panicked
  /\ dpc = "write"
  /\ \E ok \in SinkOutcomes :
       /\ target' = SinkStore(target, dcur, ok)
       /\ dataCh' = IF ok THEN dataCh ELSE Append(dataCh, dcur)
  /\ dpc' = "select"
  /\ UNCHANGED <<bufSize, chClosed, doneClosed, wg, closed, forceClosed, dcur, dforced,
                 sinkFaulty, pc, arg, ret, panicked, ghostVars, budget, bufArg, accepted,
                 loggerVars, memVars>>

\* w.target.Write(data), the result is dropped
DrainWrite ==
  /\ ~panicked
  /\ dpc = "write"
  /\ \E ok \in SinkOutcomes : target' = SinkStore(target, dcur, ok)
  /\ dpc' = "select"
  /\ UNCHANGED <<writerVars, dcur, dforced, sinkFaulty, pc, arg, ret, panicked,
                 ghostVars, budget, bufArg, accepted, loggerVars, memVars>>

\* select: case <-w.done
DrainDone ==
  /\ ~panicked
  /\ dpc = "select"
  /\ doneClosed
  /\ dpc' = "close_ch"
  /\ UNCHANGED <<writerVars, dcur, dforced, target, sinkFaulty, pc, arg, ret,
                 panicked, ghostVars, budget, bufArg, accepted, loggerVars, memVars>>

\* close(w.dataCh)
DrainCloseCh ==
  /\ ~panicked
  /\ dpc = "close_ch"
  /\ chClosed' = TRUE
  /\ dpc' = "check_force"
  /\ UNCHANGED <<bufSize, dataCh, doneClosed, wg, closed, forceClosed, dcur, dforced,
                 target, sinkFaulty, pc, arg, ret, panicked, ghostVars, budget, bufArg, accepted, loggerVars, memVars>>

\* Mutant: the drain goroutine returns at the shutdown signal without draining.
DrainCheckForce_SkipDrain ==
  /\ ~panicked
  /\ dpc = "check_force"
  /\ dpc' = "wg_done"
  /\ IF forceClosed
     THEN dforced' = TRUE /\ abandoned' = dataCh
     ELSE UNCHANGED <<dforced, abandoned>>
  /\ UNCHANGED <<writerVars, dcur, target, sinkFaulty, pc, arg, ret, panicked,
                 hist, enq, atSignal, shutdownRet, budget, bufArg, accepted, loggerVars, memVars>>

\* Mutant: the drain goroutine drains the queue even when forceClosed is set.
DrainCheckForce_IgnoreForce ==
  /\ ~panicked
  /\ dpc = "check_force"
  /\ dpc' = "range"
  /\ IF forceClosed
     THEN dforced' = TRUE /\ abandoned' = dataCh
     ELSE UNCHANGED <<dforced, abandoned>>
  /\ UNCHANGED <<writerVars, dcur, target, sinkFaulty, pc, arg, ret, panicked,
                 hist, enq, atSignal, shutdownRet, budget, bufArg, accepted, loggerVars, memVars>>

\* if !w.forceClosed { for data := range w.dataCh ... } return
DrainCheckForce ==
  /\ ~panicked
  /\ dpc = "check_force"
  /\ IF forceClosed
     THEN /\ dpc' = "wg_done"
          /\ dforced' = TRUE
          /\ abandoned' = dataCh
     ELSE /\ dpc' = "range"
          /\ UNCHANGED <<dforced, abandoned>>
  /\ UNCHANGED <<writerVars, dcur, target, sinkFaulty, pc, arg, ret, panicked,
                 hist, enq, atSignal, shutdownRet, budget, bufArg, accepted, loggerVars, memVars>>

\* for data := range w.dataCh  (dataCh is closed: the loop ends when it is empty)
DrainRange ==
  /\ ~panicked
  /\ dpc = "range"
  /\ IF dataCh # <<>>
     THEN /\ dcur' = Head(dataCh)
          /\ dataCh' = Tail(dataCh)
          /\ dpc' = "range_write"
     ELSE /\ dpc' = "wg_done"
          /\ UNCHANGED <<dcur, dataCh>>
  /\ UNCHANGED <<bufSize, chClosed, doneClosed, wg, closed, forceClosed, dforced,
                 target, sinkFaulty, pc, arg, ret, panicked, ghostVars, budget, bufArg, accepted, loggerVars, memVars>>

\* w.target.Write(data) inside the range loop
DrainRangeWrite ==
  /\ ~panicked
  /\ dpc = "range_write"
  /\ \E ok \in SinkOutcomes : target' = SinkStore(target, dcur, ok)
  /\ dpc' = "range"
  /\ UNCHANGED <<writerVars, dcur, dforced, sinkFaulty, pc, arg, ret, panicked,
                 ghostVars, budget, bufArg, accepted, loggerVars, memVars>>

\* defer w.wg.Done()
DrainExit ==
  /\ ~panicked
  /\ dpc = "wg_done"
  /\ wg' = wg - 1
  /\ dpc' = "exited"
  /\ UNCHANGED <<bufSize, dataCh, chClosed, doneClosed, closed, forceClosed, dcur,
                 dforced, target, sinkFaulty, pc, arg, ret, panicked, ghostVars, budget, bufArg, accepted, loggerVars, memVars>>

processWrites ==
  \/ DrainRecv \/ DrainWrite \/ DrainDone \/ DrainCloseCh \/ DrainCheckForce
  \/ DrainRange \/ DrainRangeWrite \/ DrainExit

\* -------------------------------------------------------------------- Flush
\* Mutant: Flush does not look at w.closed.
FlushCall_NoClosedCheck(c) ==
  /\ ~panicked
  /\ pc[c] = "idle"
  /\ MayCall(c)
  /\ hist' = Append(hist, Event("Flush", c))
  /\ pc' = [pc EXCEPT ![c] = "f_set"]
  /\ UNCHANGED <<writerVars, drainVars, target, sinkFaulty, arg, ret, panicked, enq,
                 atSignal, shutdownRet, budget, bufArg, accepted, loggerVars, memVars>>

\* Mutant: a Flush that finds the writer closed clears forceClosed and waits
\* for the drain goroutine.
FlushCall_Recovers(c) ==
  /\ ~panicked
  /\ pc[c] = "idle"
  /\ MayCall(c)
  /\ hist' = Append(hist, Event("Flush", c))
  /\ IF closed
     THEN /\ forceClosed' = FALSE
          /\ pc' = [pc EXCEPT ![c] = "f_wait"]
     ELSE /\ pc' = [pc EXCEPT ![c] = "f_set"]
          /\ UNCHANGED forceClosed
  /\ UNCHANGED <<bufSize, dataCh, chClosed, doneClosed, wg, closed, drainVars, target,
                 sinkFaulty, arg, ret, shutdownRet, panicked, enq, atSignal, budget,
                 bufArg, accepted, loggerVars, memVars>>

\* if !w.closed {
FlushCall(c) ==
  /\ ~panicked
  /\ pc[c] = "idle"
  /\ MayCall(c)
  /\ hist' = Append(hist, Event("Flush", c))
  /\ IF closed
     THEN /\ ret' = [ret EXCEPT ![c] = Result("Flush", 0, "nil")]
          /\ shutdownRet' = TRUE
          /\ pc' = pc
     ELSE /\ pc' = [pc EXCEPT ![c] = "f_set"]
          /\ UNCHANGED <<ret, shutdownRet>>
  /\ UNCHANGED <<writerVars, drainVars, target, sinkFaulty, arg, panicked, enq,
                 atSignal, budget, bufArg, accepted, loggerVars, memVars>>

\* Mutant: Flush goes on to close(w.done) without having set w.closed.
FlushSet_NotYet(c) ==
  /\ ~panicked
  /\ pc[c] = "f_set"
  /\ pc' = [pc EXCEPT ![c] = "f_close"]
  /\ UNCHANGED <<writerVars, drainVars, target, sinkFaulty, arg, ret, panicked, hist,
                 enq, atSignal, shutdownRet, budget, bufArg, accepted, loggerVars, memVars>>

\* w.closed = true
FlushSet(c) ==
  /\ ~panicked
  /\ pc[c] = "f_set"
  /\ closed' = TRUE
  /\ pc' = [pc EXCEPT ![c] = "f_close"]
  /\ UNCHANGED <<bufSize, dataCh, chClosed, doneClosed, wg, forceClosed, drainVars,
                 target, sinkFaulty, arg, ret, panicked, hist, enq, atSignal,
                 shutdownRet, budget, bufArg, accepted, loggerVars, memVars>>

\* close(w.done)
FlushCloseDone(c) ==
  /\ ~panicked
  /\ pc[c] = "f_close"
  /\ IF doneClosed
     THEN \* close of a closed channel
          /\ panicked' = TRUE
          /\ UNCHANGED <<doneClosed, pc>>
     ELSE /\ doneClosed' = TRUE
          /\ pc' = [pc EXCEPT ![c] = "f_wait"]
          /\ panicked' = panicked
  /\ UNCHANGED <<bufSize, dataCh, chClosed, wg, closed, forceClosed, drainVars,
                 target, sinkFaulty, arg, ret, hist, enq, atSignal, shutdownRet, budget, bufArg, accepted, loggerVars, memVars>>

\* Mutant: Flush empties the queue into the target itself while it waits.
FlushWait_SelfDrain(c) ==
  /\ ~panicked
  /\ pc[c] = "f_wait"
  /\ IF dataCh # <<>>
     THEN /\ target' = Append(target, Head(dataCh))
          /\ dataCh' = Tail(dataCh)
          /\ UNCHANGED <<pc, ret, shutdownRet>>
     ELSE /\ wg = 0
          /\ pc' = [pc EXCEPT ![c] = "idle"]
          /\ ret' = [ret EXCEPT ![c] = Result("Flush", 0, "nil")]
          /\ shutdownRet' = TRUE
          /\ UNCHANGED <<target, dataCh>>
  /\ UNCHANGED <<bufSize, chClosed, doneClosed, wg, closed, forceClosed, drainVars,
                 sinkFaulty, arg, panicked, hist, enq, atSignal, budget, bufArg,
                 accepted, loggerVars, memVars>>

\* w.wg.Wait()
FlushWait(c) ==
  /\ ~panicked
  /\ pc[c] = "f_wait"
  /\ wg = 0
  /\ pc' = [pc EXCEPT ![c] = "idle"]
  /\ ret' = [ret EXCEPT ![c] = Result("Flush", 0, "nil")]
  /\ shutdownRet' = TRUE
  /\ UNCHANGED <<writerVars, drainVars, target, sinkFaulty, arg, panicked, hist, enq,
                 atSignal, budget, bufArg, accepted, loggerVars, memVars>>

\* -------------------------------------------------------------------- Close
\* if !w.closed {
CloseCall(c) ==
  /\ ~panicked
  /\ pc[c] = "idle"
  /\ MayCall(c)
  /\ hist' = Append(hist, Event("Close", c))
  /\ IF closed
     THEN /\ ret' = [ret EXCEPT ![c] = Result("Close", 0, "nil")]
          /\ shutdownRet' = TRUE
          /\ pc' = pc
     ELSE /\ pc' = [pc EXCEPT ![c] = "c_set"]
          /\ UNCHANGED <<ret, shutdownRet>>
  /\ UNCHANGED <<writerVars, drainVars, target, sinkFaulty, arg, panicked, enq,
                 atSignal, budget, bufArg, accepted, loggerVars, memVars>>

\* w.closed = true
CloseSet(c) ==
  /\ ~panicked
  /\ pc[c] = "c_set"
  /\ closed' = TRUE
  /\ pc' = [pc EXCEPT ![c] = "c_force"]
  /\ UNCHANGED <<bufSize, dataCh, chClosed, doneClosed, wg, forceClosed, drainVars,
                 target, sinkFaulty, arg, ret, panicked, hist, enq, atSignal,
                 shutdownRet, budget, bufArg, accepted, loggerVars, memVars>>

\* w.forceClosed = true
CloseForce(c) ==
  /\ ~panicked
  /\ pc[c] = "c_force"
  /\ forceClosed' = TRUE
  /\ pc' = [pc EXCEPT ![c] = "c_close"]
  /\ UNCHANGED <<bufSize, dataCh, chClosed, doneClosed, wg, closed, drainVars,
                 target, sinkFaulty, arg, ret, panicked, hist, enq, atSignal,
                 shutdownRet, budget, bufArg, accepted, loggerVars, memVars>>

\* close(w.done), and Close returns
CloseCloseDone(c) ==
  /\ ~panicked
  /\ pc[c] = "c_close"
  /\ IF doneClosed
     THEN \* close of a closed channel
          /\ panicked' = TRUE
          /\ UNCHANGED <<doneClosed, pc, ret, shutdownRet, atSignal>>
     ELSE /\ doneClosed' = TRUE
          /\ atSignal' = dataCh
          /\ pc' = [pc EXCEPT ![c] = "idle"]
          /\ ret' = [ret EXCEPT ![c] = Result("Close", 0, "nil")]
          /\ shutdownRet' = TRUE
          /\ panicked' = panicked
  /\ UNCHANGED <<bufSize, dataCh, chClosed, wg, closed, forceClosed, drainVars,
                 target, sinkFaulty, arg, hist, enq, budget, bufArg, accepted, loggerVars, memVars>>

\* ------------------------------------------------------------ specification
Write(c) == WriteCall(c) \/ WriteSelect(c) \/ WriteDirect(c)
Flush(c) == FlushCall(c) \/ FlushSet(c) \/ FlushCloseDone(c) \/ FlushWait(c)
Close(c) == CloseCall(c) \/ CloseSet(c) \/ CloseForce(c) \/ CloseCloseDone(c)

Next ==
  \/ processWrites
  \/ \E c \in Procs : Write(c) \/ Flush(c) \/ Close(c)

Spec == Init /\ [][Next]_vars

\* The sink of SpecFaulty may fail any write.
InitFaulty ==
  /\ NewBuffers(1)
  /\ \E b \in BufferSizes : NewAsyncWriter(b)
  /\ InitRest
  /\ NewLoggerFields("")
  /\ sinkFaulty = TRUE
  /\ budget = MaxCalls

SpecFaulty == InitFaulty /\ [][Next]_vars

\* The scenario of TestShouldLogAsyncWithBuffer: one caller writes "1", "2", ...,
\* "9", "0" and then flushes; the buffer size is 1 or ten.
InitTen ==
  /\ NewBuffers(1)
  /\ \E b \in {1, TenWrites} : NewAsyncWriter(b)
  /\ InitRest
  /\ NewLoggerFields("")
  /\ sinkFaulty = FALSE
  /\ budget = TenWrites + 1

TenWritesThenFlush ==
  \/ (NumWrites < TenWrites /\ WriteCall(1))
  \/ WriteSelect(1)
  \/ WriteDirect(1)
  \/ (NumWrites = TenWrites /\ FlushCall(1))
  \/ FlushSet(1)
  \/ FlushCloseDone(1)
  \/ FlushWait(1)

NextTen == processWrites \/ TenWritesThenFlush

SpecTen == InitTen /\ [][NextTen]_vars

\* ------------------------------------------------------------------ claims
\* The payloads submitted so far, in the order of the Write calls.
Submitted == [i \in 1..NumWrites |-> Payload(i)]

\* What the sink holds: the concatenation of the writes it stored.
TargetContent == Concat(target)

\* Caller c's Flush returns in this step (wg.Wait() is over).
FlushReturns(c) == pc[c] = "f_wait" /\ pc'[c] = "idle"

\* The calls so far are Write calls of caller c followed by one Flush of c.
WritesThenFlush(c) ==
  /\ Len(hist) >= 1
  /\ hist[Len(hist)] = Event("Flush", c)
  /\ \A i \in 1..(Len(hist) - 1) : hist[i] = Event("Write", c)

\* C1: N <= B sequential writes of one caller on a fresh writer, then Flush:
\* when Flush returns the sink holds exactly the N payloads, each once, in
\* submission order.
C1_FlushDeliversInOrder ==
  [][\A c \in Procs :
       (FlushReturns(c) /\ WritesThenFlush(c) /\ NumWrites <= bufSize)
         => /\ target' = Submitted
            /\ Concat(target') = Concat(Submitted)]_vars

C1_Witness ==
  /\ WritesThenFlush(1)
  /\ pc[1] = "idle"
  /\ ret[1].op = "Flush"
  /\ NumWrites = 2
  /\ bufSize = 2
  /\ TargetContent = <<1, 2>>

\* C2 as stated: buffer size 1, ten writes "1".."0" and Flush leave exactly
\* "1234567890" at the sink.
TenFlushed == NumWrites = TenWrites /\ pc[1] = "idle" /\ ret[1].op = "Flush"

C3_NoLossOnOverflow ==
  [][\A c \in Procs :
       (FlushReturns(c) /\ WritesThenFlush(c) /\ NumWrites > bufSize)
         => SameBag(target', Submitted)]_vars

C3_Witness ==
  /\ WritesThenFlush(1)
  /\ pc[1] = "idle"
  /\ ret[1].op = "Flush"
  /\ NumWrites = 2
  /\ bufSize = 1
  /\ target = <<Payload(2), Payload(1)>>

\* Caller c starts a Write call, or a Flush or Close call, in this step.
WriteStarts(c) == hist' = Append(hist, Event("Write", c))
ShutdownStarts(c) == \E op \in {"Flush", "Close"} : hist' = Append(hist, Event(op, c))

\* Caller c takes the step it is waiting at and moves on.
StepsFrom(c, at) == pc[c] = at /\ pc'[c] # at

\* C4: a Write call that starts after a Flush or Close call has returned fails
\* with the closed-writer error and 0 bytes, enqueues nothing and writes
\* nothing to the target.
C4_WriteAfterShutdownRejected ==
  [][\A c \in Procs :
       (shutdownRet /\ WriteStarts(c))
         => /\ ret'[c] = Result("Write", 0, "ErrClosedPipe")
            /\ pc'[c] = "idle"
            /\ dataCh' = dataCh
            /\ enq' = enq
            /\ target' = target]_vars

C4_Witness ==
  /\ hist = <<Event("Write", 1), Event("Flush", 1), Event("Write", 1)>>
  /\ ret[1] = Result("Write", 0, "ErrClosedPipe")
  /\ pc[1] = "idle"
  /\ target = <<Payload(1)>>

\* C5: a Write on a non-closed writer whose queue is full writes the payload
\* straight to the target in that call, leaves the queue alone and returns the
\* target's own result; when the queue has room the payload is appended to
\* the queue, (len(p), nil) is returned and the target is not touched.
C5_FullQueueFallsBack ==
  [][\A c \in Procs :
       /\ (StepsFrom(c, "w_select") /\ ~closed)
            => IF Len(dataCh) >= bufSize
               THEN /\ pc'[c] = "w_direct"
                    /\ dataCh' = dataCh
                    /\ target' = target
                    /\ ret'[c] = ret[c]
               ELSE /\ pc'[c] = "idle"
                    /\ dataCh' = Append(dataCh, arg[c])
                    /\ target' = target
                    /\ ret'[c] = Result("Write", Len(arg[c]), "nil")
       /\ StepsFrom(c, "w_direct")
            => /\ pc'[c] = "idle"
               /\ dataCh' = dataCh
               /\ \/ /\ target' = Append(target, arg[c])
                     /\ ret'[c] = Result("Write", Len(arg[c]), "nil")
                  \/ /\ target' = target
                     /\ ret'[c] = Result("Write", 0, "ErrSink")]_vars

C5_Witness ==
  \E c \in Procs :
    /\ ret[c] = Result("Write", 0, "ErrSink")
    /\ pc[c] = "idle"
    /\ Len(dataCh) = bufSize
    /\ ~closed

\* The queued payloads the target holds, in the order it received them, and
\* the payload the drain goroutine has taken off the queue and not yet written.
QueuedWritten == SelectSeq(target, LAMBDA p : p \in Range(enq))
InHand == IF dpc \in {"write", "range_write"} THEN <<dcur>> ELSE <<>>

\* C6: the entries that travel through the queue reach the target in the
\* order in which they were enqueued, whoever enqueued them and whether they
\* are written before or after the shutdown signal.
C6_QueueIsFifo ==
  /\ IsPrefix(QueuedWritten, enq)
  /\ QueuedWritten \o InHand \o dataCh = enq

C6_Witness ==
  /\ Len(hist) = 3
  /\ hist[1] = Event("Write", 1)
  /\ hist[2] = Event("Write", 2)
  /\ enq = <<Payload(2), Payload(1)>>
  /\ dpc = "range_write"
  /\ target = <<Payload(2)>>
  /\ dcur = Payload(1)

\* C7: when the first Flush on a non-closed writer returns, the drain
\* goroutine has terminated, the queue is empty and every queued entry has
\* been written to the target.
C7_FlushWaitsForDrain ==
  [][\A c \in Procs :
       FlushReturns(c)
         => /\ dpc' = "exited"
            /\ dataCh' = <<>>
            /\ \A e \in Range(enq') : e \in Range(target')]_vars

\* C7 without a Close call in the behaviour: Flush does drain the queue.
NoCloseCall == \A i \in 1..Len(hist) : hist[i].op # "Close"

FlushDrainsWithoutClose ==
  [][\A c \in Procs :
       (FlushReturns(c) /\ NoCloseCall)
         => /\ dpc' = "exited"
            /\ dataCh' = <<>>
            /\ \A e \in Range(enq') : e \in Range(target')]_vars

\* C8: after a first Flush or Close has returned, a further Flush or Close
\* changes no state of the writer, sends no second shutdown signal, writes
\* nothing to the target and returns.
C8_ShutdownIdempotent ==
  [][\A c \in Procs :
       (shutdownRet /\ ShutdownStarts(c))
         => /\ UNCHANGED <<writerVars, drainVars, target, panicked>>
            /\ pc'[c] = "idle"]_vars

C8_Witness ==
  /\ hist = <<Event("Flush", 1), Event("Close", 1), Event("Flush", 1)>>
  /\ pc[1] = "idle"
  /\ ret[1].op = "Flush"
  /\ dpc = "exited"
  /\ ~forceClosed
  /\ ~panicked

\* The caller's own steps left in a Write or Close call.
StepsLeft(at) ==
  CASE at = "w_select" -> 2
    [] at = "w_direct" -> 1
    [] at = "c_set" -> 3
    [] at = "c_force" -> 2
    [] at = "c_close" -> 1
    [] OTHER -> 0

\* C9: a caller inside Write or Close can always take its next step itself,
\* wherever the drain goroutine stands, and each such step brings the call
\* nearer to its end (or ends the process in a panic): Write and Close never
\* wait for the drain goroutine or for queue space.
C9_WriteCloseNeverWait ==
  ~panicked =>
    \A c \in Procs :
      StepsLeft(pc[c]) > 0
        => ENABLED ( /\ Write(c) \/ Close(c)
                     /\ panicked' \/ StepsLeft(pc'[c]) < StepsLeft(pc[c]) )

C9_Witness ==
  /\ pc[1] = "w_direct"
  /\ Len(dataCh) = bufSize
  /\ pc[2] = "c_close"
  /\ dpc = "select"
  /\ ~panicked

\* C10 as stated: no entry that was in the queue when Close sent the shutdown
\* signal is written to the target.
C10_Original == \A e \in Range(atSignal) : e \notin Range(target)

\* C10 amended: once the drain goroutine has seen the shutdown signal and read
\* forceClosed = true it terminates without draining: the entries in the queue
\* at that moment stay there and are never written.
C10_DiscardOnceSignalSeen ==
  dforced =>
    /\ dpc \in {"wg_done", "exited"}
    /\ dataCh = abandoned
    /\ \A e \in Range(abandoned) : e \notin Range(target)

C10_Witness ==
  /\ dforced
  /\ dpc = "exited"
  /\ shutdownRet
  /\ Len(abandoned) = 1
  /\ Len(target) = 1

\* C11: in every state, also after Close, the payloads at the target are a
\* sub-multiset of the payloads of the Write calls that succeeded: nothing
\* is written twice, nothing that was not submitted, and no more bytes than
\* were submitted.
C11_TargetWithinAccepted ==
  /\ \A x \in Range(target) :
       /\ Count(target, x) <= Count(accepted, x)
       /\ Count(target, x) <= Count(Submitted, x)
  /\ Len(Concat(target)) <= Len(Concat(Submitted))

C11_Witness ==
  /\ dforced
  /\ dpc = "exited"
  /\ shutdownRet
  /\ Len(accepted) = 2
  /\ Len(target) = 1

\* C12: the queue never holds more entries than its capacity, and the
\* capacity is the bufferSize given to NewAsyncWriter, or 100 when that was
\* not positive.
C12_QueueWithinCapacity ==
  /\ Len(dataCh) <= bufSize
  /\ bufArg > 0 => bufSize = bufArg
  /\ bufArg <= 0 => bufSize = 100

C12_Witness ==
  /\ bufArg = 2
  /\ Len(dataCh) = 2
  /\ \E c \in Procs : pc[c] = "w_direct"

\* C13: once w.closed is true no entry is added to the queue.
C13_NoEnqueueOnceClosed == [][closed => enq' = enq]_vars

\* C14: no interleaving of Write, Flush and Close ends in a panic.
C14_NoPanic == ~panicked

IsAsyncWriter(w) == w.kind = "async"

\* The value async.NewAsyncWriter(target, bufferSize) returns.
MakeAsyncWriter(tgt, bufferSize) ==
  [target |-> tgt, bufSize |-> NormalizeBufSize(bufferSize), dataCh |-> <<>>,
   closed |-> FALSE, forceClosed |-> FALSE, doneClosed |-> FALSE, wg |-> 1,
   dpc |-> "select", dcur |-> <<>>]

\* AsyncWriter.Target()
Target(i) == aws[i].target

\* w.Write(p) for an io.Writer value w: a raw sink stores p; an AsyncWriter
\* rejects it when closed, queues it when there is room, and otherwise hands
\* it to its own target.  The result is the new sinks and AsyncWriters.
RECURSIVE WriteTo(_, _, _, _)
WriteTo(w, p, S, A) ==
  IF ~IsAsyncWriter(w)
  THEN [sinks |-> [S EXCEPT ![w.id] = Append(@, p)], aws |-> A]
  ELSE IF A[w.id].closed
  THEN [sinks |-> S, aws |-> A]
  ELSE IF Len(A[w.id].dataCh) < A[w.id].bufSize
  THEN [sinks |-> S, aws |-> [A EXCEPT ![w.id].dataCh = Append(@, p)]]
  ELSE WriteTo(A[w.id].target, p, S, A)

NumLogs == Cardinality({i \in 1..Len(lhist) : lhist[i] = "Log"})
Idle == [at |-> "idle"]

\* The logger's goroutine starts a call.
LoggerCall(op) ==
  /\ lpc = Idle
  /\ Len(lhist) < MaxOps
  /\ lhist' = Append(lhist, op)

\* SetOutput that shuts the AsyncWriter it replaces.
SetOutput_ClosesOld(writer, made) ==
  /\ LoggerCall("SetOutput")
  /\ lwriter' = writer
  /\ aws' = IF IsAsyncWriter(lwriter)
            THEN [aws EXCEPT ![lwriter.id].closed = TRUE,
                             ![lwriter.id].doneClosed = TRUE] \o made
            ELSE aws \o made
  /\ UNCHANGED <<sinks, lpc, asyncVars, fmtVars, lenq, lpc2>>

\* Logger.SetOutput(writer); `made` holds the AsyncWriter the caller made for
\* the call (README, method 3), if any.
SetOutput(writer, made) ==
  /\ LoggerCall("SetOutput")
  /\ lwriter' = writer
  /\ aws' = aws \o made
  /\ UNCHANGED <<sinks, lpc, asyncVars, fmtVars, lenq, lpc2>>

\* SetAsyncOutput that wraps the current writer instead of its argument.
SetAsyncOutput_WrapCurrent(writer, bufferSize) ==
  /\ LoggerCall("SetAsyncOutput")
  /\ IF IsAsyncWriter(lwriter)
     THEN /\ lwriter' = writer
          /\ aws' = aws
     ELSE /\ aws' = Append(aws, MakeAsyncWriter(lwriter, bufferSize))
          /\ lwriter' = AsyncRef(Len(aws) + 1)
  /\ UNCHANGED <<sinks, lpc, asyncVars, fmtVars, lenq, lpc2>>

\* Logger.SetAsyncOutput(writer, bufferSize)
SetAsyncOutput(writer, bufferSize) ==
  /\ LoggerCall("SetAsyncOutput")
  /\ IF IsAsyncWriter(lwriter)
     THEN /\ lwriter' = writer
          /\ aws' = aws
     ELSE /\ aws' = Append(aws, MakeAsyncWriter(writer, bufferSize))
          /\ lwriter' = AsyncRef(Len(aws) + 1)
  /\ UNCHANGED <<sinks, lpc, asyncVars, fmtVars, lenq, lpc2>>

\* SetAsync without the type assertion: it wraps whatever the writer is.
SetAsync_AlwaysWrap(bufferSize) ==
  /\ LoggerCall("SetAsync")
  /\ aws' = Append(aws, MakeAsyncWriter(lwriter, bufferSize))
  /\ lwriter' = AsyncRef(Len(aws) + 1)
  /\ UNCHANGED <<sinks, lpc, asyncVars, fmtVars, lenq, lpc2>>

\* SetAsync that gives an existing AsyncWriter the new capacity.
SetAsync_Resize(bufferSize) ==
  /\ LoggerCall("SetAsync")
  /\ IF ~IsAsyncWriter(lwriter)
     THEN /\ aws' = Append(aws, MakeAsyncWriter(lwriter, bufferSize))
          /\ lwriter' = AsyncRef(Len(aws) + 1)
     ELSE /\ aws' = [aws EXCEPT ![lwriter.id].bufSize = NormalizeBufSize(bufferSize)]
          /\ lwriter' = lwriter
  /\ UNCHANGED <<sinks, lpc, asyncVars, fmtVars, lenq, lpc2>>

\* Logger.SetAsync(bufferSize)
SetAsync(bufferSize) ==
  /\ LoggerCall("SetAsync")
  /\ IF ~IsAsyncWriter(lwriter)
     THEN /\ aws' = Append(aws, MakeAsyncWriter(lwriter, bufferSize))
          /\ lwriter' = AsyncRef(Len(aws) + 1)
     ELSE UNCHANGED <<aws, lwriter>>
  /\ UNCHANGED <<sinks, lpc, asyncVars, fmtVars, lenq, lpc2>>

\* AsyncWriter.Flush() of writer i, called by the logger call `op`: a closed
\* writer returns at once; otherwise closed is set, done is closed and the
\* caller waits in wg.Wait().
FlushBegin(i, op) ==
  IF aws[i].closed
  THEN /\ lpc' = [at |-> "flushed", w |-> i, op |-> op]
       /\ aws' = aws
  ELSE /\ aws' = [aws EXCEPT ![i].closed = TRUE, ![i].doneClosed = TRUE]
       /\ lpc' = [at |-> "f_wait", w |-> i, op |-> op]

\* Logger.SetSync(): if the writer is an AsyncWriter, asyncWriter.Flush() ...
SetSync ==
  /\ LoggerCall("SetSync")
  /\ IF IsAsyncWriter(lwriter)
     THEN FlushBegin(lwriter.id, "SetSync")
     ELSE UNCHANGED <<aws, lpc>>
  /\ UNCHANGED <<lwriter, sinks, asyncVars, fmtVars, lenq, lpc2>>

\* Logger.Flush(): if the writer is an AsyncWriter, asyncWriter.Flush()
LoggerFlush ==
  /\ LoggerCall("Flush")
  /\ IF IsAsyncWriter(lwriter)
     THEN FlushBegin(lwriter.id, "Flush")
     ELSE UNCHANGED <<aws, lpc>>
  /\ UNCHANGED <<lwriter, sinks, asyncVars, fmtVars, lenq, lpc2>>

\* A Flush whose wg.Wait() returns while the drain goroutine still runs.
FlushEnd_NoWait ==
  /\ lpc.at = "f_wait"
  /\ lpc' = [lpc EXCEPT !.at = "flushed"]
  /\ UNCHANGED <<lwriter, aws, sinks, lhist, asyncVars, fmtVars, lenq, lpc2>>

\* w.wg.Wait() inside AsyncWriter.Flush: the drain goroutine has returned.
FlushEnd ==
  /\ lpc.at = "f_wait"
  /\ aws[lpc.w].wg = 0
  /\ lpc' = [lpc EXCEPT !.at = "flushed"]
  /\ UNCHANGED <<lwriter, aws, sinks, lhist, asyncVars, fmtVars, lenq, lpc2>>

\* Every return from asyncWriter.Flush() unwraps the writer, in Flush too.
FlushReturn_AlwaysUnwrap ==
  /\ lpc.at = "flushed"
  /\ lwriter' = Target(lpc.w)
  /\ lpc' = Idle
  /\ UNCHANGED <<aws, sinks, lhist, asyncVars, fmtVars, lenq, lpc2>>

\* After asyncWriter.Flush(): SetSync does l.writer = asyncWriter.Target(),
\* Logger.Flush returns.
FlushReturn ==
  /\ lpc.at = "flushed"
  /\ lwriter' = IF lpc.op = "SetSync" THEN Target(lpc.w) ELSE lwriter
  /\ lpc' = Idle
  /\ UNCHANGED <<aws, sinks, lhist, asyncVars, fmtVars, lenq, lpc2>>

\* Mutant: a closed AsyncWriter passes the record on to its target.
Log_ClosedWritesThrough ==
  /\ LoggerCall("Log")
  /\ LET p == Payload(NumLogs + 1) IN
     IF ~IsAsyncWriter(lwriter)
     THEN /\ sinks' = WriteTo(lwriter, p, sinks, aws).sinks
          /\ UNCHANGED <<aws, lpc, lenq>>
     ELSE IF aws[lwriter.id].closed
     THEN /\ sinks' = WriteTo(Target(lwriter.id), p, sinks, aws).sinks
          /\ UNCHANGED <<aws, lpc, lenq>>
     ELSE IF Len(aws[lwriter.id].dataCh) < aws[lwriter.id].bufSize
     THEN /\ aws' = [aws EXCEPT ![lwriter.id].dataCh = Append(@, p)]
          /\ lenq' = Append(lenq, [w |-> lwriter.id, p |-> p])
          /\ UNCHANGED <<sinks, lpc>>
     ELSE /\ lpc' = [at |-> "w_direct", w |-> lwriter.id, p |-> p]
          /\ UNCHANGED <<sinks, aws, lenq>>
  /\ UNCHANGED <<lwriter, asyncVars, fmtVars, lpc2>>

\* Logger.Log at an enabled level: the dispatcher writes the record to
\* l.writer and drops the result.  A raw sink stores it; AsyncWriter.Write
\* rejects it when closed, queues it, or goes on to the direct write.
Log ==
  /\ LoggerCall("Log")
  /\ LET p == Payload(NumLogs + 1) IN
     IF ~IsAsyncWriter(lwriter)
     THEN /\ sinks' = WriteTo(lwriter, p, sinks, aws).sinks
          /\ UNCHANGED <<aws, lpc, lenq>>
     ELSE IF aws[lwriter.id].closed
     THEN UNCHANGED <<sinks, aws, lpc, lenq>>
     ELSE IF Len(aws[lwriter.id].dataCh) < aws[lwriter.id].bufSize
     THEN /\ aws' = [aws EXCEPT ![lwriter.id].dataCh = Append(@, p)]
          /\ lenq' = Append(lenq, [w |-> lwriter.id, p |-> p])
          /\ UNCHANGED <<sinks, lpc>>
     ELSE /\ lpc' = [at |-> "w_direct", w |-> lwriter.id, p |-> p]
          /\ UNCHANGED <<sinks, aws, lenq>>
  /\ UNCHANGED <<lwriter, asyncVars, fmtVars, lpc2>>

\* default: return w.target.Write(p)
LogDirect ==
  /\ lpc.at = "w_direct"
  /\ LET r == WriteTo(Target(lpc.w), lpc.p, sinks, aws) IN
       /\ sinks' = r.sinks
       /\ aws' = r.aws
  /\ lpc' = Idle
  /\ UNCHANGED <<lwriter, lhist, asyncVars, fmtVars, lenq, lpc2>>

\* processWrites of AsyncWriter i: case data := <-w.dataCh
AwDrainRecv(i) ==
  /\ aws[i].dpc = "select"
  /\ aws[i].dataCh # <<>>
  /\ aws' = [aws EXCEPT ![i].dcur = Head(aws[i].dataCh),
                        ![i].dataCh = Tail(@),
                        ![i].dpc = "write"]
  /\ UNCHANGED <<lwriter, sinks, lpc, lhist, asyncVars, fmtVars, lenq, lpc2>>

\* w.target.Write(data), in the select loop and in the range loop
AwDrainWrite(i) ==
  /\ aws[i].dpc \in {"write", "range_write"}
  /\ LET r == WriteTo(Target(i), aws[i].dcur, sinks, aws) IN
       /\ sinks' = r.sinks
       /\ aws' = [r.aws EXCEPT ![i].dpc = IF aws[i].dpc = "write" THEN "select" ELSE "range"]
  /\ UNCHANGED <<lwriter, lpc, lhist, asyncVars, fmtVars, lenq, lpc2>>

\* case <-w.done: close(w.dataCh); forceClosed is false
AwDrainDone(i) ==
  /\ aws[i].dpc = "select"
  /\ aws[i].doneClosed
  /\ aws' = [aws EXCEPT ![i].dpc = "range"]
  /\ UNCHANGED <<lwriter, sinks, lpc, lhist, asyncVars, fmtVars, lenq, lpc2>>

\* for data := range w.dataCh; at the end return and wg.Done()
AwDrainRange(i) ==
  /\ aws[i].dpc = "range"
  /\ IF aws[i].dataCh # <<>>
     THEN aws' = [aws EXCEPT ![i].dcur = Head(aws[i].dataCh),
                             ![i].dataCh = Tail(@),
                             ![i].dpc = "range_write"]
     ELSE aws' = [aws EXCEPT ![i].dpc = "exited", ![i].wg = 0]
  /\ UNCHANGED <<lwriter, sinks, lpc, lhist, asyncVars, fmtVars, lenq, lpc2>>

AwProcessWrites(i) ==
  AwDrainRecv(i) \/ AwDrainWrite(i) \/ AwDrainDone(i) \/ AwDrainRange(i)

\* The buffer sizes the logger's callers pass: the default and the smallest.
LoggerBufferSizes == {0, 1}

NextLogger ==
  \/ \E s \in Sinks : SetOutput(RawSink(s), <<>>)
  \/ \E s \in Sinks, b \in LoggerBufferSizes :
       SetOutput(AsyncRef(Len(aws) + 1), <<MakeAsyncWriter(RawSink(s), b)>>)
  \/ \E s \in Sinks, b \in LoggerBufferSizes : SetAsyncOutput(RawSink(s), b)
  \/ \E b \in LoggerBufferSizes : SetAsync(b)
  \/ SetSync
  \/ LoggerFlush
  \/ FlushEnd
  \/ FlushReturn
  \/ Log
  \/ LogDirect
  \/ \E i \in 1..Len(aws) : AwProcessWrites(i)

\* The statement-level AsyncWriter is not used by the logger's behaviours.
InitLogger ==
  /\ NewBuffers(1)
  /\ NewAsyncWriter(1)
  /\ InitRest
  /\ NewLoggerFields("")
  /\ sinkFaulty = FALSE
  /\ budget = 0

SpecLogger == InitLogger /\ [][NextLogger]_vars

\* ------------------------------------------------------ claims on the logger

\* The AsyncWriters whose drain goroutine has not returned.
Running == {i \in 1..Len(aws) : aws[i].dpc # "exited"}

\* The call made one AsyncWriter, over tgt, and made it the logger's writer;
\* the writers that existed are as they were.
WrappedInNew(tgt) ==
  /\ Len(aws') = Len(aws) + 1
  /\ \A i \in 1..Len(aws) : aws'[i] = aws[i]
  /\ lwriter' = AsyncRef(Len(aws'))
  /\ aws'[Len(aws')].target = tgt
  /\ aws'[Len(aws')].dpc = "select"
  /\ ~aws'[Len(aws')].closed
  /\ aws'[Len(aws')].dataCh = <<>>

C17_SetAsyncOutputRedirects ==
  [][\A s \in Sinks, b \in LoggerBufferSizes :
       (IsAsyncWriter(lwriter) /\ SetAsyncOutput(RawSink(s), b)) =>
         /\ lwriter' = lwriter
         /\ Len(aws') = Len(aws)
         /\ aws'[lwriter.id] = [aws[lwriter.id] EXCEPT !.target = RawSink(s)]]_vars

\* C18: when only SetAsyncOutput is called on a logger, at most one AsyncWriter
\* with a running drain goroutine exists at any time.
C18_OneRunningWriter ==
  (\A k \in 1..Len(lhist) : lhist[k] = "SetAsyncOutput") => Cardinality(Running) <= 1

\* C19: from the Sync state SetAsync(n) makes exactly one new AsyncWriter over
\* the raw sink that was the logger's writer, SetAsyncOutput(sink, n) makes
\* exactly one new AsyncWriter over sink, and the new one is the logger's writer.
C19_WrapFromSync ==
  [][~IsAsyncWriter(lwriter) =>
       /\ \A b \in LoggerBufferSizes : SetAsync(b) => WrappedInNew(lwriter)
       /\ \A s \in Sinks, b \in LoggerBufferSizes :
            SetAsyncOutput(RawSink(s), b) => WrappedInNew(RawSink(s))]_vars

C19_Witness ==
  /\ lhist = <<"SetAsyncOutput", "SetSync", "SetAsync">>
  /\ Len(aws) = 2
  /\ Target(1) = RawSink(2)
  /\ lwriter = AsyncRef(2)
  /\ Target(2) = RawSink(2)

\* C20: SetAsync(n) called while the logger's writer is an AsyncWriter changes
\* nothing: the same AsyncWriter is the logger's writer, no writer is made, and
\* its queue, capacity and closed flag are as they were.
C20_SetAsyncOnAsyncIsNoOp ==
  [][\A b \in LoggerBufferSizes :
       (IsAsyncWriter(lwriter) /\ SetAsync(b)) =>
         /\ lwriter' = lwriter
         /\ aws' = aws
         /\ sinks' = sinks]_vars

C20_Witness ==
  /\ lhist = <<"SetAsync", "Log", "SetAsync">>
  /\ lwriter = AsyncRef(1)
  /\ Len(aws) = 1
  /\ aws[1].bufSize = 1
  /\ aws[1].dataCh = <<Payload(1)>>

\* The payloads AsyncWriter i took into its queue.
QueuedBy(i) == {lenq[k].p : k \in {j \in 1..Len(lenq) : lenq[j].w = i}}

\* The call `op` returns from the asyncWriter.Flush() it made.
ReturnsFromFlush(op) == lpc.at = "flushed" /\ lpc.op = op /\ lpc' = Idle

\* Every payload AsyncWriter i took into its queue is in its raw target, once,
\* and nothing is left in the queue.
AllQueuedWritten(i) ==
  /\ ~IsAsyncWriter(Target(i))
  /\ aws[i].dataCh = <<>>
  /\ \A x \in QueuedBy(i) : Count(sinks[Target(i).id], x) = 1

\* The record of this Log call goes straight into the raw sink l.writer.
LogsDirectly ==
  /\ sinks' = [sinks EXCEPT ![lwriter.id] = Append(@, Payload(NumLogs + 1))]
  /\ aws' = aws
  /\ lpc' = Idle

\* C21: when SetSync returns in the Async state every payload the AsyncWriter
\* had queued is in its target and the logger's writer is that raw target; a
\* Log made while the writer is raw stores the record in it at once; SetSync
\* in the Sync state changes nothing.
C21_SetSyncFlushesThenUnwraps ==
  [][/\ ReturnsFromFlush("SetSync") =>
          /\ AllQueuedWritten(lpc.w)
          /\ lwriter' = Target(lpc.w)
          /\ UNCHANGED <<aws, sinks>>
     /\ (~IsAsyncWriter(lwriter) /\ Log) => LogsDirectly
     /\ (~IsAsyncWriter(lwriter) /\ SetSync) => UNCHANGED <<lwriter, aws, sinks, lpc>>]_vars

C21_Witness ==
  /\ lhist = <<"SetAsync", "Log", "SetSync", "Log">>
  /\ lpc = Idle
  /\ lwriter = DefaultWriter
  /\ lenq = <<[w |-> 1, p |-> Payload(1)]>>
  /\ sinks[1] = <<Payload(1), Payload(2)>>

\* AsyncWriter i has an entry in its queue or in the drain goroutine's hands.
HoldsEntries(i) ==
  aws[i].dataCh # <<>> \/ aws[i].dpc \in {"write", "range_write"}

\* The drain goroutine of AsyncWriter i writes the entry it holds.
DrainWrites(i) ==
  aws[i].dpc \in {"write", "range_write"} /\ aws'[i].dpc # aws[i].dpc

\* C22: SetOutput(sink) makes sink the logger's writer and leaves the
\* AsyncWriter that was the writer as it is (closed flag, queue, drain
\* goroutine); a writer that is no longer the logger's writer still has its
\* drain goroutine taking its entries and writing each to its own target.
C22_SetOutputLeavesOldWriterRunning ==
  /\ [][/\ \A s \in Sinks :
             SetOutput(RawSink(s), <<>>) =>
               lwriter' = RawSink(s) /\ aws' = aws /\ sinks' = sinks
        /\ \A s \in Sinks, b \in LoggerBufferSizes :
             SetOutput(AsyncRef(Len(aws) + 1), <<MakeAsyncWriter(RawSink(s), b)>>) =>
               /\ lwriter' = AsyncRef(Len(aws) + 1)
               /\ SubSeq(aws', 1, Len(aws)) = aws
               /\ sinks' = sinks
        /\ \A i \in 1..Len(aws) :
             (lwriter # AsyncRef(i) /\ DrainWrites(i)) =>
               sinks' = [sinks EXCEPT ![Target(i).id] = Append(@, aws[i].dcur)]]_vars
  /\ [](\A i \in 1..MaxOps :
          (i <= Len(aws) /\ lwriter # AsyncRef(i) /\ HoldsEntries(i)) =>
            ENABLED (AwProcessWrites(i) /\ (DrainWrites(i) \/ Len(aws'[i].dataCh) < Len(aws[i].dataCh))))

C22_Witness ==
  /\ lhist = <<"SetAsync", "Log", "Log", "SetOutput">>
  /\ lwriter = RawSink(2)
  /\ ~aws[1].closed
  /\ aws[1].dpc = "write"
  /\ aws[1].dcur = Payload(1)
  /\ aws[1].dataCh = <<Payload(2)>>
  /\ sinks[1] = <<>>

\* C23: when Logger.Flush returns in the Async state every payload the active
\* AsyncWriter had queued is in its target and the logger's writer is still
\* that AsyncWriter; Logger.Flush in the Sync state changes nothing and writes
\* nothing.
C23_FlushKeepsWriter ==
  [][/\ ReturnsFromFlush("Flush") =>
          /\ AllQueuedWritten(lpc.w)
          /\ lwriter = AsyncRef(lpc.w)
          /\ UNCHANGED <<lwriter, aws, sinks>>
     /\ (~IsAsyncWriter(lwriter) /\ LoggerFlush) =>
          UNCHANGED <<lwriter, aws, sinks, lpc, lenq>>]_vars

C23_Witness ==
  /\ lhist = <<"SetAsync", "Log", "Log", "Flush">>
  /\ lpc = Idle
  /\ lwriter = AsyncRef(1)
  /\ aws[1].closed
  /\ Len(lenq) = 2
  /\ sinks[1] = <<Payload(1), Payload(2)>>

\* C24: after SetAsyncOutput(sink, 1) and one Log whose record the AsyncWriter
\* took into its queue, and before Flush is called, the sink has received
\* nothing.
C24_NothingWrittenBeforeFlush ==
  (/\ lhist = <<"SetAsyncOutput", "Log">>
   /\ aws[1].bufSize = 1
   /\ lenq = <<[w |-> 1, p |-> Payload(1)]>>)
    => sinks[Target(1).id] = <<>>

\* The drain goroutine finishes a w.target.Write(data) call.
DrainWriteStep == dpc \in {"write", "range_write"} /\ dpc' # dpc

\* C25: a caller gets the target's error exactly when its own direct write
\* failed; when the drain goroutine's write of a queued entry fails no caller's
\* result changes, nothing panics, the entry is neither written nor put back,
\* and the drain goroutine is at the head of its loop for the next entry.
C25_DrainErrorsAbsorbed ==
  [][/\ \A c \in Procs :
          /\ (ret'[c] # ret[c] /\ ret'[c].err = "ErrSink") => StepsFrom(c, "w_direct")
          /\ (StepsFrom(c, "w_direct") /\ target' = target)
               => ret'[c] = Result("Write", 0, "ErrSink")
     /\ (DrainWriteStep /\ target' = target) =>
          /\ ret' = ret
          /\ panicked' = panicked
          /\ dataCh' = dataCh
          /\ accepted' = accepted
          /\ dpc' = (IF dpc = "write" THEN "select" ELSE "range")]_vars

C25_Witness ==
  /\ Len(enq) = 2
  /\ target = <<enq[2]>>
  /\ dataCh = <<>>
  /\ dpc = "select"
  /\ accepted = enq
  /\ \A c \in Procs : pc[c] = "idle" /\ ret[c].err = "nil"

\* ------------------------------------------------- two goroutines, one logger
\* A second goroutine logs through the logger while the first one switches it
\* between asynchronous and synchronous output.  Logger has no lock: the second
\* goroutine reads l.writer and w.closed whenever it is scheduled.  Its Write
\* is followed statement by statement.

\* The dataCh of AsyncWriter i has been closed by its drain goroutine.
ChClosed(i) == aws[i].dpc \in {"range", "range_write", "exited"}

\* Logger.Log in the second goroutine: the dispatcher reads l.writer and calls
\* its Write.  A raw sink stores the record; AsyncWriter.Write returns
\* io.ErrClosedPipe if w.closed (the dispatcher drops the error) and otherwise
\* goes on to its select.
Log2Call ==
  /\ lpc2 = Idle
  /\ Len(lhist) < MaxOps
  /\ lhist' = Append(lhist, "Log")
  /\ LET p == Payload(NumLogs + 1) IN
     IF ~IsAsyncWriter(lwriter)
     THEN /\ sinks' = [sinks EXCEPT ![lwriter.id] = Append(@, p)]
          /\ lpc2' = Idle
     ELSE IF aws[lwriter.id].closed
     THEN UNCHANGED <<sinks, lpc2>>
     ELSE /\ lpc2' = [at |-> "w_select", w |-> lwriter.id, p |-> p]
          /\ sinks' = sinks
  /\ UNCHANGED <<lwriter, aws, lpc, lenq, asyncVars, fmtVars>>

\* select { case w.dataCh <- data: ...; default: ... } in the second
\* goroutine; a send on the closed dataCh panics.
Log2Select ==
  /\ lpc2.at = "w_select"
  /\ IF ChClosed(lpc2.w)
     THEN /\ lpc2' = [at |-> "panicked"]
          /\ UNCHANGED <<aws, lenq>>
     ELSE IF Len(aws[lpc2.w].dataCh) < aws[lpc2.w].bufSize
     THEN /\ aws' = [aws EXCEPT ![lpc2.w].dataCh = Append(@, lpc2.p)]
          /\ lenq' = Append(lenq, [w |-> lpc2.w, p |-> lpc2.p])
          /\ lpc2' = Idle
     ELSE /\ lpc2' = [lpc2 EXCEPT !.at = "w_direct"]
          /\ UNCHANGED <<aws, lenq>>
  /\ UNCHANGED <<lwriter, sinks, lpc, lhist, asyncVars, fmtVars>>

\* default: return w.target.Write(p), in the second goroutine
Log2Direct ==
  /\ lpc2.at = "w_direct"
  /\ LET r == WriteTo(Target(lpc2.w), lpc2.p, sinks, aws) IN
       /\ sinks' = r.sinks
       /\ aws' = r.aws
  /\ lpc2' = Idle
  /\ UNCHANGED <<lwriter, lpc, lhist, lenq, asyncVars, fmtVars>>

\* A panic ends the process.
Alive == lpc2.at # "panicked"

NextLoggerRace ==
  \/ Alive /\ \E b \in LoggerBufferSizes : SetAsync(b)
  \/ Alive /\ SetSync
  \/ Alive /\ LoggerFlush
  \/ Alive /\ FlushEnd
  \/ Alive /\ FlushReturn
  \/ Alive /\ Log
  \/ Alive /\ LogDirect
  \/ Alive /\ \E i \in 1..Len(aws) : AwProcessWrites(i)
  \/ Alive /\ Log2Call
  \/ Alive /\ Log2Select
  \/ Alive /\ Log2Direct

SpecLoggerRace == InitLogger /\ [][NextLoggerRace]_vars

\* The first goroutine is inside SetSync or Logger.Flush.
InSetSyncOrFlush == lpc.at \in {"f_wait", "flushed"}

\* C26: a Log call that runs while SetSync or Flush runs on the same logger is
\* not rejected by a closed writer and dropped (its record is stored or its
\* Write goes on to the queue), and no Log call ends in a panic.
C26_ConcurrentLogDelivered ==
  /\ [][(InSetSyncOrFlush /\ Log2Call) => (sinks' # sinks \/ lpc2' # Idle)]_vars
  /\ [](lpc2.at # "panicked")

\* ------------------------------------------------- levels and the dispatcher
\* The logger's level filter (IsEnabled, Log) and DefaultLogDispatcher.  The
\* text the dispatcher hands to the writer is kept in `dispatched`; the writer
\* is the raw default writer throughout.

Levels == {LevelOff, LevelFatal, LevelError, LevelWarn, LevelInfo, LevelDebug,
           LevelTrace, LevelAll}
MessageLevels == {LevelFatal, LevelError, LevelWarn, LevelInfo, LevelDebug, LevelTrace}

\* stringByLevel[l]
LevelString(l) ==
  CASE l = LevelAll -> "ALL"
    [] l = LevelTrace -> "TRACE"
    [] l = LevelDebug -> "DEBUG"
    [] l = LevelInfo -> "INFO"
    [] l = LevelWarn -> "WARN"
    [] l = LevelError -> "ERROR"
    [] l = LevelFatal -> "FATAL"
    [] l = LevelOff -> "OFF"
    [] OTHER -> ""

\* The logger names, date layouts, clock readings and argument lists used.
Names == {"", "AnyName", "NoDateLogger"}
Layouts == {"", "AnyDate", "15:04"}
Clock == {"09:30", "23:59"}
Arguments == {<<>>, <<"This log has no date">>, <<"split", "test", "1", "2", "3">>}

\* time.Now().Format(layout) at the clock reading now (a time of day on
\* 2025-04-20, UTC): the layout "15:04" gives the time of day, the default
\* layout the full timestamp, and a layout without layout elements is copied
\* as it is.
Format(layout, now) ==
  IF layout = "15:04" THEN now
  ELSE IF layout = DefaultDateFormat THEN "2025-04-20 " \o now \o ":05.000 Z"
  ELSE layout

\* fmt.Sprintln(a...): the operands separated by single spaces, then a newline.
RECURSIVE JoinWithSpaces(_)
JoinWithSpaces(a) ==
  IF a = <<>> THEN ""
  ELSE IF Len(a) = 1 THEN a[1]
  ELSE a[1] \o " " \o JoinWithSpaces(Tail(a))
Sprintln(a) == JoinWithSpaces(a) \o "\n"

\* Mutant: every level name is followed by the padding space.
DefaultLogDispatcher_AlwaysPad(layout, now, name, l, a) ==
  LET date == IF layout # "" THEN Format(layout, now) ELSE layout IN
    (IF date # "" THEN date \o " - " ELSE "")
      \o LevelString(l) \o " "
      \o (IF name # "" THEN " " \o name \o ":" ELSE "")
      \o " " \o Sprintln(a)

\* Mutant: the name part is written even when the name is empty.
DefaultLogDispatcher_AlwaysName(layout, now, name, l, a) ==
  LET date == IF layout # "" THEN Format(layout, now) ELSE layout IN
    (IF date # "" THEN date \o " - " ELSE "")
      \o LevelString(l) \o (IF Len(LevelString(l)) = 4 THEN " " ELSE "")
      \o " " \o name \o ":"
      \o " " \o Sprintln(a)

\* DefaultLogDispatcher: the text it writes to w with fmt.Fprint.
DefaultLogDispatcher(layout, now, name, l, a) ==
  LET date == IF layout # "" THEN Format(layout, now) ELSE layout IN
    (IF date # "" THEN date \o " - " ELSE "")
      \o LevelString(l) \o (IF Len(LevelString(l)) = 4 THEN " " ELSE "")
      \o (IF name # "" THEN " " \o name \o ":" ELSE "")
      \o " " \o Sprintln(a)

\* Mutant: a level is enabled only when it is strictly below the logger's.
IsEnabled_Strict(lv) == logLevel > lv

\* Logger.IsEnabled(lv)
IsEnabled(lv) == logLevel >= lv

\* These calls leave the writer and the AsyncWriters alone.
WriterUntouched == UNCHANGED <<asyncVars, lwriter, aws, sinks, lpc, lhist, lenq, lpc2>>

\* Logger.SetLogLevel(lv)
SetLogLevel(lv) ==
  /\ logLevel' = lv
  /\ UNCHANGED <<lname, dateFormat, dispatched, enabledRet>>
  /\ WriterUntouched

\* Logger.SetDateFormat(format)
SetDateFormat(format) ==
  /\ dateFormat' = format
  /\ UNCHANGED <<lname, logLevel, dispatched, enabledRet>>
  /\ WriterUntouched

\* A call of Logger.IsEnabled(lv), or of the Is<Level>Enabled method of lv.
IsEnabledCall(lv) ==
  /\ enabledRet' = [lv |-> lv, ok |-> IsEnabled(lv)]
  /\ UNCHANGED <<lname, logLevel, dateFormat, dispatched>>
  /\ WriterUntouched

\* Logger.Log(lv, a...) with the default dispatcher, at the clock reading now.
LogAt(lv, a, now) ==
  /\ IF IsEnabled(lv)
     THEN dispatched' = [lv |-> lv, a |-> a, now |-> now, n |-> 1,
                         out |-> DefaultLogDispatcher(dateFormat, now, lname, lv, a)]
     ELSE dispatched' = [lv |-> lv, a |-> a, now |-> now, n |-> 0, out |-> ""]
  /\ UNCHANGED <<lname, logLevel, dateFormat, enabledRet>>
  /\ WriterUntouched

\* The level filter: the level is set, asked about and logged at.
NextLevels ==
  \/ \E lv \in Levels : SetLogLevel(lv)
  \/ \E lv \in Levels : IsEnabledCall(lv)
  \/ \E lv \in Levels, a \in Arguments, now \in Clock : LogAt(lv, a, now)

\* The record layout: the level and the date format are set and logged with.
NextFormat ==
  \/ \E lv \in Levels : SetLogLevel(lv)
  \/ \E f \in Layouts : SetDateFormat(f)
  \/ \E lv \in Levels, a \in Arguments, now \in Clock : LogAt(lv, a, now)

InitLevels ==
  /\ NewBuffers(1)
  /\ NewAsyncWriter(1)
  /\ InitRest
  /\ sinkFaulty = FALSE
  /\ budget = 0
  /\ \E name \in Names : NewLoggerFields(name)

SpecLevels == InitLevels /\ [][NextLevels]_vars
SpecFormat == InitLevels /\ [][NextFormat]_vars

Logs == dispatched' # dispatched

\* The parts of a record as the claims describe them.
DatePart(now) == IF dateFormat = "" THEN "" ELSE Format(dateFormat, now) \o " - "
LevelPart(lv) == IF lv \in {LevelInfo, LevelWarn} THEN LevelString(lv) \o " " ELSE LevelString(lv)
NamePart == IF lname = "" THEN "" ELSE " " \o lname \o ":"

\* C28: an enabled Log call with the default dispatcher writes the date and
\* " - " (nothing when the date format is empty), the level name (followed by
\* one space when it has four letters), " " name ":" (nothing when the name is
\* empty), one space, the arguments separated by single spaces and a newline;
\* date "AnyDate", name "AnyName", Warn("split", "test", 1, 2, 3) gives
\* "AnyDate - WARN  AnyName: split test 1 2 3\n".
C28_DefaultRecordLayout ==
  [][(Logs /\ dispatched'.lv <= logLevel) =>
       /\ dispatched'.n = 1
       /\ dispatched'.out =
            DatePart(dispatched'.now) \o LevelPart(dispatched'.lv) \o NamePart
              \o " " \o JoinWithSpaces(dispatched'.a) \o "\n"
       /\ (/\ dateFormat = "AnyDate"
           /\ lname = "AnyName"
           /\ dispatched'.lv = LevelWarn
           /\ dispatched'.a = <<"split", "test", "1", "2", "3">>)
            => dispatched'.out = "AnyDate - WARN  AnyName: split test 1 2 3\n"]_vars

C28_Witness ==
  /\ lname = "AnyName"
  /\ dateFormat = "AnyDate"
  /\ dispatched.lv = LevelWarn
  /\ dispatched.n = 1
  /\ dispatched.out = "AnyDate - WARN  AnyName: split test 1 2 3\n"

\* C29: with an empty date format the logger named "NoDateLogger" logging
\* Info("This log has no date") through the default dispatcher writes the line
\* "INFO NoDateLogger: This log has no date", with one space between the level
\* name and the logger name.
C29_NoDateLine ==
  [][(/\ Logs
      /\ dispatched'.lv = LevelInfo
      /\ dispatched'.a = <<"This log has no date">>
      /\ LevelInfo <= logLevel
      /\ dateFormat = ""
      /\ lname = "NoDateLogger")
       => dispatched'.out = "INFO NoDateLogger: This log has no date\n"]_vars

\* The shutdown signal has been sent, or the drain goroutine is past its
\* select loop (closing the queue, draining the rest, or finished).
ShutdownUnderWay ==
  \/ doneClosed
  \/ chClosed
  \/ dpc \in {"close_ch", "check_force", "range", "range_write", "wg_done", "exited"}

\* C30 as stated: whenever the closed flag is set and only Flush can have set
\* it, the queue is empty and the drain goroutine has finished.
C30_Original ==
  (closed /\ NoCloseCall) => (dataCh = <<>> /\ dpc = "exited")

\* C30, amended: Flush sets the closed flag before it signals the drain
\* goroutine: whenever the shutdown is under way the flag is already set, and
\* the Flush step that sets it leaves the queue and the drain goroutine as
\* they are.
C30_ClosedSetBeforeDrain ==
  /\ [](ShutdownUnderWay => closed)
  /\ [][\A c \in Procs :
          StepsFrom(c, "f_set") =>
            /\ closed'
            /\ pc'[c] = "f_close"
            /\ UNCHANGED <<dataCh, doneClosed, chClosed, wg, target, drainVars>>]_vars

C30_Witness ==
  /\ NoCloseCall
  /\ closed
  /\ ~doneClosed
  /\ Len(dataCh) = 2
  /\ dpc = "select"
  /\ \E c \in Procs : pc[c] = "f_close"

\* ------------------------------------------------ the payload and its copy
\* Write at the level of memory. A []byte is a slice of an array: `heap` holds
\* the arrays, heap[1] is the buffer the caller passes as p, and a slice is the
\* position of its array. One goroutine owns the buffer, calls Write, Flush
\* and Close, and refills the buffer between calls.
CallerBuf == 1

\* The caller reuses its buffer once Write has returned ("p may be reused by
\* the caller").
ReuseBuffer(k) ==
  /\ bufPc.at = "idle"
  /\ heap' = [heap EXCEPT ![CallerBuf] = Payload(k)]
  /\ UNCHANGED <<bufCap, bufCh, bufAt, bufClosed, bufDone, bufDrain, bufSink, bufPc,
                 bufCalls, stmtVars, loggerVars>>

\* Mutant: Write queues p itself, without copying it.
BufWriteCall_NoCopy ==
  /\ bufPc.at = "idle"
  /\ bufCalls < MaxCalls
  /\ bufCalls' = bufCalls + 1
  /\ IF bufClosed.closed
     THEN UNCHANGED bufPc
     ELSE bufPc' = [at |-> "w_select", data |-> CallerBuf, was |-> heap[CallerBuf]]
  /\ UNCHANGED <<heap, bufCap, bufCh, bufAt, bufClosed, bufDone, bufDrain, bufSink,
                 stmtVars, loggerVars>>

\* if w.closed { return 0, io.ErrClosedPipe }
\* data := make([]byte, length); copy(data, p)
BufWriteCall ==
  /\ bufPc.at = "idle"
  /\ bufCalls < MaxCalls
  /\ bufCalls' = bufCalls + 1
  /\ IF bufClosed.closed
     THEN UNCHANGED <<heap, bufPc>>
     ELSE /\ heap' = Append(heap, heap[CallerBuf])
          /\ bufPc' = [at |-> "w_select", data |-> Len(heap) + 1, was |-> heap[CallerBuf]]
  /\ UNCHANGED <<bufCap, bufCh, bufAt, bufClosed, bufDone, bufDrain, bufSink,
                 stmtVars, loggerVars>>

\* select { case w.dataCh <- data: return length, nil; default: ... }
BufWriteSelect ==
  /\ bufPc.at = "w_select"
  /\ IF Len(bufCh) < bufCap
     THEN /\ bufCh' = Append(bufCh, bufPc.data)
          /\ bufAt' = Append(bufAt, bufPc.was)
          /\ bufPc' = [bufPc EXCEPT !.at = "idle"]
     ELSE /\ bufPc' = [bufPc EXCEPT !.at = "w_direct"]
          /\ UNCHANGED <<bufCh, bufAt>>
  /\ UNCHANGED <<heap, bufCap, bufClosed, bufDone, bufDrain, bufSink, bufCalls,
                 stmtVars, loggerVars>>

\* default: return w.target.Write(p)
BufWriteDirect ==
  /\ bufPc.at = "w_direct"
  /\ bufSink' = Append(bufSink, heap[CallerBuf])
  /\ bufPc' = [bufPc EXCEPT !.at = "idle"]
  /\ UNCHANGED <<heap, bufCap, bufCh, bufAt, bufClosed, bufDone, bufDrain, bufCalls,
                 stmtVars, loggerVars>>

\* case data := <-w.dataCh
BufDrainRecv ==
  /\ bufDrain.at = "select"
  /\ bufCh # <<>>
  /\ bufDrain' = [at |-> "write", data |-> Head(bufCh), was |-> Head(bufAt),
                  reused |-> FALSE]
  /\ bufCh' = Tail(bufCh)
  /\ bufAt' = Tail(bufAt)
  /\ UNCHANGED <<heap, bufCap, bufClosed, bufDone, bufSink, bufPc, bufCalls,
                 stmtVars, loggerVars>>

\* w.target.Write(data), in the select loop and in the final range loop. The
\* history notes whether the caller's buffer had changed by then.
BufDrainWrite ==
  /\ bufDrain.at \in {"write", "range_write"}
  /\ bufSink' = Append(bufSink, heap[bufDrain.data])
  /\ bufDrain' = [bufDrain EXCEPT
                    !.at = IF bufDrain.at = "write" THEN "select" ELSE "range",
                    !.reused = (heap[CallerBuf] # bufDrain.was)]
  /\ UNCHANGED <<heap, bufCap, bufCh, bufAt, bufClosed, bufDone, bufPc, bufCalls,
                 stmtVars, loggerVars>>

\* case <-w.done: close(w.dataCh); if !w.forceClosed { for data := range ... }
BufDrainDone ==
  /\ bufDrain.at = "select"
  /\ bufDone
  /\ bufDrain' = [bufDrain EXCEPT
                    !.at = IF bufClosed.forceClosed THEN "exited" ELSE "range"]
  /\ UNCHANGED <<heap, bufCap, bufCh, bufAt, bufClosed, bufDone, bufSink, bufPc,
                 bufCalls, stmtVars, loggerVars>>

\* for data := range w.dataCh: the next slice, or the end of the loop
BufDrainRange ==
  /\ bufDrain.at = "range"
  /\ IF bufCh # <<>>
     THEN /\ bufDrain' = [at |-> "range_write", data |-> Head(bufCh),
                          was |-> Head(bufAt), reused |-> FALSE]
          /\ bufCh' = Tail(bufCh)
          /\ bufAt' = Tail(bufAt)
     ELSE /\ bufDrain' = [bufDrain EXCEPT !.at = "exited"]
          /\ UNCHANGED <<bufCh, bufAt>>
  /\ UNCHANGED <<heap, bufCap, bufClosed, bufDone, bufSink, bufPc, bufCalls,
                 stmtVars, loggerVars>>

\* Flush: if !w.closed { w.closed = true; close(w.done); w.wg.Wait() }
BufFlush ==
  /\ bufPc.at = "idle"
  /\ ~bufClosed.closed
  /\ bufClosed' = [bufClosed EXCEPT !.closed = TRUE]
  /\ bufDone' = TRUE
  /\ bufPc' = [bufPc EXCEPT !.at = "f_wait"]
  /\ UNCHANGED <<heap, bufCap, bufCh, bufAt, bufDrain, bufSink, bufCalls,
                 stmtVars, loggerVars>>

\* w.wg.Wait() returns once the drain goroutine has left
BufFlushWait ==
  /\ bufPc.at = "f_wait"
  /\ bufDrain.at = "exited"
  /\ bufPc' = [bufPc EXCEPT !.at = "idle"]
  /\ UNCHANGED <<heap, bufCap, bufCh, bufAt, bufClosed, bufDone, bufDrain, bufSink,
                 bufCalls, stmtVars, loggerVars>>

\* Close: if !w.closed { w.closed = true; w.forceClosed = true; close(w.done) }
BufClose ==
  /\ bufPc.at = "idle"
  /\ ~bufClosed.closed
  /\ bufClosed' = [closed |-> TRUE, forceClosed |-> TRUE]
  /\ bufDone' = TRUE
  /\ UNCHANGED <<heap, bufCap, bufCh, bufAt, bufDrain, bufSink, bufPc, bufCalls,
                 stmtVars, loggerVars>>

NextBuffers ==
  \/ \E k \in 1..MaxCalls : ReuseBuffer(k)
  \/ BufWriteCall
  \/ BufWriteSelect
  \/ BufWriteDirect
  \/ BufDrainRecv
  \/ BufDrainWrite
  \/ BufDrainDone
  \/ BufDrainRange
  \/ BufFlush
  \/ BufFlushWait
  \/ BufClose

\* The statement-level AsyncWriter and the logger are not used here.
InitBuffers ==
  /\ \E capacity \in 1..MaxBuf : NewBuffers(capacity)
  /\ NewAsyncWriter(1)
  /\ InitRest
  /\ NewLoggerFields("")
  /\ sinkFaulty = FALSE
  /\ budget = 0

SpecBuffers == InitBuffers /\ [][NextBuffers]_vars

\* C31: the bytes that reach the target for a payload are those the caller's
\* buffer held when Write was called, on the queued path and on the direct
\* path alike, whatever the caller has put into its buffer since Write returned.
C31_BytesAsAtCall ==
  [][/\ BufDrainWrite => bufSink' = Append(bufSink, bufDrain.was)
     /\ BufWriteDirect => bufSink' = Append(bufSink, bufPc.was)]_vars

\* A queued entry was written by the drain goroutine after the caller had put
\* other bytes into its buffer.
C31_Witness ==
  /\ bufDrain.reused
  /\ bufDrain.at # "write"
  /\ bufDrain.was \in Range(bufSink)

\* Some Flush call has returned: its caller is between calls or has started
\* another call since.
FlushHasReturned ==
  \E i \in 1..Len(hist) :
    /\ hist[i].op = "Flush"
    /\ \/ pc[hist[i].c] = "idle"
       \/ \E j \in (i + 1)..Len(hist) : hist[j].c = hist[i].c

\* The only shutdown call so far is one Flush.
OneFlushOnly ==
  /\ NoCloseCall
  /\ Cardinality({i \in 1..Len(hist) : hist[i].op = "Flush"}) = 1

\* C32: once the Flush call has returned (the only shutdown call, all other
\* calls being Write calls), no step of any goroutine adds bytes to the target,
\* whatever Write calls were in progress when Flush ran.
C32_NothingAfterFlushReturns ==
  [][(FlushHasReturned /\ OneFlushOnly) => target' = target]_vars

\* The logger's writer is an AsyncWriter that has been flushed.
BoundToClosed == IsAsyncWriter(lwriter) /\ aws[lwriter.id].closed

\* The logger's goroutine starts a call of `op`.
Calls(op) == lhist' = Append(lhist, op)

\* C33: Logger.Flush leaves the logger bound to the AsyncWriter it has closed.
\* While the logger is bound to it, a Log call stores nothing in any sink and
\* queues nothing, and SetAsync leaves the writer in place; the writer is
\* replaced only by SetSync, SetOutput or SetAsyncOutput, and what replaces it
\* is not a closed AsyncWriter.
C33_StaysBoundToClosedWriter ==
  /\ [][(lpc.at = "flushed" /\ lpc.op = "Flush") =>
          (lwriter' = lwriter /\ BoundToClosed')]_vars
  /\ [][(BoundToClosed /\ lpc = Idle /\ Calls("Log")) =>
          (UNCHANGED <<sinks, aws, lwriter>> /\ lpc' = Idle)]_vars
  /\ [][(BoundToClosed /\ Calls("SetAsync")) => UNCHANGED <<lwriter, aws>>]_vars
  /\ [][(BoundToClosed /\ lwriter' # lwriter) =>
          /\ \/ lpc.at = "flushed" /\ lpc.op = "SetSync"
             \/ Calls("SetOutput")
             \/ Calls("SetAsyncOutput")
          /\ ~BoundToClosed']_vars

\* SetAsync, Flush, then SetAsync and Log again: the logger is still bound to
\* the closed writer and no sink holds anything.
C33_Witness ==
  /\ lhist = <<"SetAsync", "Flush", "SetAsync", "Log">>
  /\ lpc = Idle
  /\ BoundToClosed
  /\ \A s \in Sinks : sinks[s] = <<>>

\* Some Close call has returned.
CloseHasReturned ==
  \E i \in 1..Len(hist) :
    /\ hist[i].op = "Close"
    /\ \/ pc[hist[i].c] = "idle"
       \/ \E j \in (i + 1)..Len(hist) : hist[j].c = hist[i].c

\* A Flush call was started after a Close call.
FlushAfterClose ==
  \E i, j \in 1..Len(hist) : i < j /\ hist[i].op = "Close" /\ hist[j].op = "Flush"

\* C34: a Flush call started after a Close has returned returns in its first
\* step, without waiting for the drain goroutine, and changes neither the
\* writer, the drain goroutine nor the target; forceClosed, once set, stays
\* set; and the entries the drain goroutine has left in the queue are not
\* written, Flush or no Flush.
C34_FlushAfterCloseIsNoOp ==
  /\ [][\A c \in Procs :
          (CloseHasReturned /\ hist' = Append(hist, Event("Flush", c)))
            => /\ pc'[c] = "idle"
               /\ ret'[c] = Result("Flush", 0, "nil")
               /\ UNCHANGED <<writerVars, drainVars, target, enq>>]_vars
  /\ [][forceClosed => forceClosed']_vars
  /\ []((FlushAfterClose /\ dforced) =>
          /\ dataCh = abandoned
          /\ \A e \in Range(abandoned) : e \notin Range(target))

\* Write (queued), Close, Flush: Flush has returned although the drain
\* goroutine has not finished, and the queued entry is left behind.
C34_Witness ==
  /\ hist = <<Event("Write", 1), Event("Close", 1), Event("Flush", 1)>>
  /\ pc[1] = "idle"
  /\ ret[1] = Result("Flush", 0, "nil")
  /\ dforced
  /\ dpc = "wg_done"
  /\ abandoned = <<Payload(1)>>
  /\ target = <<>>

====
